---- MODULE Spec2Model ----
(***************************************************************************)
(* State-machine model of ScriptParser.parse_file (src/script_parser.py).  *)
(* A ScriptParser object is called repeatedly; each call decodes a         *)
(* document through read_fdx and classifies its paragraphs one by one.     *)
(* Python lists are heap objects (heap[ref]); the caller keeps the         *)
(* references that earlier calls returned (held).                          *)
(***************************************************************************)
EXTENDS Integers, Sequences, FiniteSets, TLC

\* ---- bounds of the model ----
MaxCalls == 2
MaxTotalParas == 3

\* ---- values ----
None == "~None"
Texts == {"", "BOB"}
KnownKinds == {"Scene Heading", "Character", "Parenthetical", "Dialogue", "Action", "Transition"}
Kinds == KnownKinds \cup {"Shot"}
Paragraph == [paragraph_type : Kinds, plain_text : Texts]
ExcClasses == {"FileNotFoundError", "Exception"}

VARIABLES
    pc,                         \* "idle" after __init__, "loop" inside the for loop, "done" after parse_file left
    input,                      \* what read_fdx did (kind) and the paragraphs the loop has read
    line_number,                \* the local line_number
    parsed_elements,            \* self.parsed_elements: reference to a list in heap
    current_character_element,  \* self._current_character_element: <<>> for None, <<e>> for element e
    heap,                       \* the list objects created so far
    result,                     \* the reference the last call returned (0: a new empty list)
    outcome,                    \* "ok": returned at line 147, "failed": returned [], "raised": exception left
    error,                      \* class of the exception the last call caught, None if none
    out,                        \* lines the current call printed
    held,                       \* references the calls so far returned to the caller
    calls,                      \* number of calls started
    used                        \* number of paragraphs read over all calls

vars == <<pc, input, line_number, parsed_elements, current_character_element,
          heap, result, outcome, error, out, held, calls, used>>

\* ScriptElement.__init__
ScriptElement(type, text, character_name, dialogue_text, original_line_num) ==
    [type |-> type, text |-> text, character_name |-> character_name,
     dialogue_text |-> dialogue_text, original_line_num |-> original_line_num]

\* variant: the test looks at the name, "if current and current.character_name"
TruthyByName(cur) == cur # <<>> /\ cur[1].character_name # ""

\* truth value of "self._current_character_element": None is falsy, a
\* ScriptElement instance (no __bool__, no __len__) is truthy whatever it holds
Truthy(cur) == cur # <<>>

\* ---- the branches of the classification loop: each yields the elements
\* ---- appended, the new current character and the warnings printed
\* variant: a scene heading does not end the character's turn
OnSceneHeadingKeepsCharacter(cur, text, ln) ==
    [elems |-> <<ScriptElement("scene_heading", text, None, None, ln)>>,
     cur |-> cur, warn |-> <<>>]

OnSceneHeading(cur, text, ln) ==
    [elems |-> <<ScriptElement("scene_heading", text, None, None, ln)>>,
     cur |-> <<>>, warn |-> <<>>]

\* variant: a character cue does not replace a pending one
OnCharacterKeepsFirst(cur, text, ln) ==
    LET new_character_element == ScriptElement("character", None, text, None, ln)
    IN [elems |-> <<new_character_element>>,
        cur |-> IF cur # <<>> THEN cur ELSE <<new_character_element>>, warn |-> <<>>]

OnCharacter(cur, text, ln) ==
    LET new_character_element == ScriptElement("character", None, text, None, ln)
    IN [elems |-> <<new_character_element>>,
        cur |-> <<new_character_element>>, warn |-> <<>>]

\* variant: the parenthetical is tagged with the current character
OnParentheticalTagged(cur, text, ln) ==
    [elems |-> <<ScriptElement("parenthetical", text,
                               IF cur # <<>> THEN cur[1].character_name ELSE None, None, ln)>>,
     cur |-> cur, warn |-> <<>>]

\* variant: the parenthetical ends the character's turn
OnParentheticalResets(cur, text, ln) ==
    [elems |-> <<ScriptElement("parenthetical", text, None, None, ln)>>,
     cur |-> <<>>, warn |-> <<>>]

OnParenthetical(cur, text, ln) ==
    [elems |-> <<ScriptElement("parenthetical", text, None, None, ln)>>,
     cur |-> cur, warn |-> <<>>]

\* variant: the dialogue does not end the character's turn
OnDialogueKeepsCharacter(cur, text, ln) ==
    IF cur # <<>>
    THEN [elems |-> <<ScriptElement("dialogue", text, cur[1].character_name, text, ln)>>,
          cur |-> cur, warn |-> <<>>]
    ELSE [elems |-> <<ScriptElement("action", text, None, None, ln)>>,
          cur |-> <<>>, warn |-> <<"warning">>]

\* variant: the dialogue is attributed to its own text
OnDialogueNamesText(cur, text, ln) ==
    IF Truthy(cur)
    THEN [elems |-> <<ScriptElement("dialogue", text, text, text, ln)>>,
          cur |-> <<>>, warn |-> <<>>]
    ELSE [elems |-> <<ScriptElement("action", text, None, None, ln)>>,
          cur |-> <<>>, warn |-> <<"warning">>]

\* variant: the fallback is silent
OnDialogueSilent(cur, text, ln) ==
    IF Truthy(cur)
    THEN [elems |-> <<ScriptElement("dialogue", text, cur[1].character_name, text, ln)>>,
          cur |-> <<>>, warn |-> <<>>]
    ELSE [elems |-> <<ScriptElement("action", text, None, None, ln)>>,
          cur |-> <<>>, warn |-> <<>>]

\* variant: the else is missing, the fallback element follows every dialogue
OnDialogueAppendsBoth(cur, text, ln) ==
    IF Truthy(cur)
    THEN [elems |-> <<ScriptElement("dialogue", text, cur[1].character_name, text, ln),
                      ScriptElement("action", text, None, None, ln)>>,
          cur |-> <<>>, warn |-> <<>>]
    ELSE [elems |-> <<ScriptElement("action", text, None, None, ln)>>,
          cur |-> <<>>, warn |-> <<"warning">>]

OnDialogue(cur, text, ln) ==
    IF Truthy(cur)
    THEN [elems |-> <<ScriptElement("dialogue", text, cur[1].character_name, text, ln)>>,
          cur |-> <<>>, warn |-> <<>>]
    ELSE [elems |-> <<ScriptElement("action", text, None, None, ln)>>,
          cur |-> <<>>, warn |-> <<"warning">>]

\* variant: an action does not end the character's turn
OnActionKeepsCharacter(cur, text, ln) ==
    [elems |-> <<ScriptElement("action", text, None, None, ln)>>,
     cur |-> cur, warn |-> <<>>]

OnAction(cur, text, ln) ==
    [elems |-> <<ScriptElement("action", text, None, None, ln)>>,
     cur |-> <<>>, warn |-> <<>>]

\* variant: a transition does not end the character's turn
OnTransitionKeepsCharacter(cur, text, ln) ==
    [elems |-> <<ScriptElement("transition", text, None, None, ln)>>,
     cur |-> cur, warn |-> <<>>]

OnTransition(cur, text, ln) ==
    [elems |-> <<ScriptElement("transition", text, None, None, ln)>>,
     cur |-> <<>>, warn |-> <<>>]

\* variant: an unknown kind does not end the character's turn
OnUnknownKeepsCharacter(cur, text, ln) ==
    [elems |-> <<ScriptElement("action", text, None, None, ln)>>,
     cur |-> cur, warn |-> <<>>]

OnUnknown(cur, text, ln) ==
    [elems |-> <<ScriptElement("action", text, None, None, ln)>>,
     cur |-> <<>>, warn |-> <<>>]

\* the if/elif chain on paragraph_type
Classify(cur, p, ln) ==
    IF p.paragraph_type = "Scene Heading" THEN OnSceneHeading(cur, p.plain_text, ln)
    ELSE IF p.paragraph_type = "Character" THEN OnCharacter(cur, p.plain_text, ln)
    ELSE IF p.paragraph_type = "Parenthetical" THEN OnParenthetical(cur, p.plain_text, ln)
    ELSE IF p.paragraph_type = "Dialogue" THEN OnDialogue(cur, p.plain_text, ln)
    ELSE IF p.paragraph_type = "Action" THEN OnAction(cur, p.plain_text, ln)
    ELSE IF p.paragraph_type = "Transition" THEN OnTransition(cur, p.plain_text, ln)
    ELSE OnUnknown(cur, p.plain_text, ln)

\* variant: the general clause logs and re-raises
HandlerReraises(exc) ==
    IF exc = "FileNotFoundError"
    THEN [diag |-> <<"not_found">>, propagates |-> FALSE]
    ELSE [diag |-> <<"parse_error">>, propagates |-> TRUE]

\* variant: a single except clause for every exception
HandlerOneClause(exc) ==
    [diag |-> <<"parse_error">>, propagates |-> FALSE]

\* the except clauses: which diagnostic is printed, and whether the
\* exception is swallowed (return []) or leaves parse_file
Handler(exc) ==
    IF exc = "FileNotFoundError"
    THEN [diag |-> <<"not_found">>, propagates |-> FALSE]
    ELSE [diag |-> <<"parse_error">>, propagates |-> FALSE]

\* what the call gave back: result = 0 is a fresh [] literal nobody else holds
ResultValue == IF result = 0 THEN <<>> ELSE heap[result]
Elements == heap[parsed_elements]

Init ==
    /\ pc = "idle"
    /\ input = [kind |-> "ok", paragraphs |-> <<>>]
    /\ line_number = 0
    /\ heap = << <<>> >>
    /\ parsed_elements = 1
    /\ current_character_element = <<>>
    /\ result = 0
    /\ outcome = "pending"
    /\ error = None
    /\ out = <<>>
    /\ held = <<>>
    /\ calls = 0
    /\ used = 0

\* the heap once the parser lets go of its list: a list the caller holds
\* stays as it is; a list no reference reaches any more is not part of the
\* program's state, and its slot is emptied
Released ==
    IF \E k \in 1..Len(held) : held[k] = parsed_elements
    THEN heap
    ELSE [heap EXCEPT ![parsed_elements] = <<>>]

\* variant: the current character is not reset when a call starts
BeginKeepsCharacter ==
    /\ pc \in {"idle", "done"}
    /\ calls < MaxCalls
    /\ calls' = calls + 1
    /\ heap' = Append(Released, <<>>)
    /\ parsed_elements' = Len(heap) + 1
    /\ current_character_element' = current_character_element
    /\ line_number' = 0

\* lines 56-58: rebind parsed_elements to a new list, forget the character
Begin ==
    /\ pc \in {"idle", "done"}
    /\ calls < MaxCalls
    /\ calls' = calls + 1
    /\ heap' = Append(Released, <<>>)
    /\ parsed_elements' = Len(heap) + 1
    /\ current_character_element' = <<>>
    /\ line_number' = 0

\* "return []": a new empty list goes to the caller
ReturnEmpty ==
    /\ pc' = "done"
    /\ result' = 0
    /\ outcome' = "failed"
    /\ held' = Append(held, 0)

\* lines 149-155: exception exc reaches the except clauses after the call
\* has printed the lines in printed
Except(exc, printed) ==
    /\ error' = exc
    /\ out' = printed \o Handler(exc).diag
    /\ IF Handler(exc).propagates
       THEN /\ pc' = "done"
            /\ outcome' = "raised"
            /\ UNCHANGED <<result, held>>
       ELSE ReturnEmpty

\* read_fdx decodes the document; the loop starts.  input.paragraphs holds
\* the paragraphs that screenplay.paragraphs has yielded so far
CallOk ==
    /\ Begin
    /\ input' = [kind |-> "ok", paragraphs |-> <<>>]
    /\ pc' = "loop"
    /\ out' = <<>>
    /\ outcome' = "pending"
    /\ error' = None
    /\ UNCHANGED <<result, held, used>>

\* read_fdx returns None
CallNone ==
    /\ Begin
    /\ input' = [kind |-> "none", paragraphs |-> <<>>]
    /\ ReturnEmpty
    /\ out' = <<"returned_none">>
    /\ error' = None
    /\ UNCHANGED used

\* read_fdx returns an object without a paragraphs attribute
CallNoAttr ==
    /\ Begin
    /\ input' = [kind |-> "noattr", paragraphs |-> <<>>]
    /\ ReturnEmpty
    /\ out' = <<"no_paragraphs", "attributes">>
    /\ error' = None
    /\ UNCHANGED used

\* read_fdx raises: FileNotFoundError for a missing file, another
\* exception for a file it cannot decode
CallRaise(exc) ==
    /\ Begin
    /\ input' = [kind |-> IF exc = "FileNotFoundError" THEN "not_found" ELSE "decode_error",
                 paragraphs |-> <<>>]
    /\ Except(exc, <<>>)
    /\ UNCHANGED used

\* variant: line_number is incremented at the end of the loop body
StepCountsFromZero(p) ==
    /\ pc = "loop"
    /\ used < MaxTotalParas
    /\ used' = used + 1
    /\ input' = [input EXCEPT !.paragraphs = Append(@, p)]
    /\ LET r == Classify(current_character_element, p, line_number)
       IN /\ line_number' = line_number + 1
          /\ heap' = [heap EXCEPT ![parsed_elements] = @ \o r.elems]
          /\ current_character_element' = r.cur
          /\ out' = out \o r.warn
    /\ UNCHANGED <<pc, parsed_elements, result, outcome, error, held, calls>>

\* one iteration of "for fdx_paragraph in screenplay.paragraphs": the
\* document yields its next paragraph p
Step(p) ==
    /\ pc = "loop"
    /\ used < MaxTotalParas
    /\ used' = used + 1
    /\ input' = [input EXCEPT !.paragraphs = Append(@, p)]
    /\ LET ln == line_number + 1
           r == Classify(current_character_element, p, ln)
       IN /\ line_number' = ln
          /\ heap' = [heap EXCEPT ![parsed_elements] = @ \o r.elems]
          /\ current_character_element' = r.cur
          /\ out' = out \o r.warn
    /\ UNCHANGED <<pc, parsed_elements, result, outcome, error, held, calls>>

\* the iteration, or reading paragraph_type / plain_text, raises
IterRaise(exc) ==
    /\ pc = "loop"
    /\ Except(exc, out)
    /\ UNCHANGED <<input, line_number, parsed_elements, current_character_element,
                   heap, calls, used>>

\* line 147: the document has no more paragraphs, return self.parsed_elements
Return ==
    /\ pc = "loop"
    /\ pc' = "done"
    /\ result' = parsed_elements
    /\ outcome' = "ok"
    /\ held' = Append(held, parsed_elements)
    /\ UNCHANGED <<input, line_number, parsed_elements, current_character_element,
                   heap, error, out, calls, used>>

Next ==
    \/ CallOk
    \/ CallNone
    \/ CallNoAttr
    \/ \E exc \in ExcClasses : CallRaise(exc)
    \/ \E p \in Paragraph : Step(p)
    \/ \E exc \in ExcClasses : IterRaise(exc)
    \/ Return

Spec == Init /\ [][Next]_vars

\* what a newly constructed ScriptParser makes of the paragraphs doc[1..n]:
\* the loop run from the state __init__ leaves
RECURSIVE FreshLoop(_, _)
FreshLoop(doc, n) ==
    IF n = 0
    THEN [elems |-> <<>>, cur |-> <<>>]
    ELSE LET prev == FreshLoop(doc, n - 1)
             r == Classify(prev.cur, doc[n], n)
         IN [elems |-> prev.elems \o r.elems, cur |-> r.cur]

FreshParse(doc) == FreshLoop(doc, Len(doc)).elems

\* ---- properties ----

\* the paragraphs read so far by the running (or last) call
Paras == input.paragraphs
\* this step is a loop iteration that read a paragraph of kind k
ReadsKind(K) ==
    /\ pc = "loop"
    /\ Len(input'.paragraphs) = Len(Paras) + 1
    /\ input'.paragraphs[Len(Paras) + 1].paragraph_type \in K
\* the text of the paragraph this step read
ReadText == input'.paragraphs[Len(Paras) + 1].plain_text

\* C1: every dialogue element of the output is preceded by a character
\* element, and only parenthetical elements lie between the two
C1_DialogueAfterCharacter ==
    \A j \in 1..Len(Elements) :
        Elements[j].type = "dialogue" =>
            \E i \in 1..(j - 1) :
                /\ Elements[i].type = "character"
                /\ \A k \in (i + 1)..(j - 1) : Elements[k].type = "parenthetical"

C1_Witness ==
    /\ pc = "done" /\ outcome = "ok" /\ Len(Elements) = 3
    /\ Elements[1].type = "character"
    /\ Elements[2].type = "parenthetical"
    /\ Elements[3].type = "dialogue"

\* C2: the character_name of a dialogue element is absent or is the
\* character_name of a character element earlier in the same output
C2_DialogueNameKnown ==
    \A j \in 1..Len(Elements) :
        Elements[j].type = "dialogue" =>
            \/ Elements[j].character_name = None
            \/ \E i \in 1..(j - 1) :
                /\ Elements[i].type = "character"
                /\ Elements[i].character_name = Elements[j].character_name

C2_Witness ==
    /\ pc = "done" /\ outcome = "ok"
    /\ \E j \in 1..Len(Elements) :
        /\ Elements[j].type = "dialogue"
        /\ Elements[j].character_name = "BOB"
        /\ Elements[j].text = ""

\* C3: a Parenthetical paragraph leaves the current character as it was
\* (set or empty), so a Dialogue paragraph separated from a Character
\* paragraph only by Parenthetical paragraphs becomes a dialogue element
\* attributed to that character
C3_Attributed ==
    \A i \in 1..Len(Paras) : \A j \in (i + 1)..Len(Paras) :
        ( /\ j <= Len(Elements)
          /\ Paras[i].paragraph_type = "Character"
          /\ Paras[j].paragraph_type = "Dialogue"
          /\ \A k \in (i + 1)..(j - 1) : Paras[k].paragraph_type = "Parenthetical" )
        => /\ Elements[j].type = "dialogue"
           /\ Elements[j].character_name = Paras[i].plain_text

C3_ParentheticalKeepsState ==
    /\ [] C3_Attributed
    /\ [][ReadsKind({"Parenthetical"}) =>
            current_character_element' = current_character_element]_vars

C3_Witness ==
    /\ pc = "done" /\ outcome = "ok" /\ Len(Paras) = 3
    /\ Paras[1].paragraph_type = "Character"
    /\ Paras[2].paragraph_type = "Parenthetical"
    /\ Paras[3].paragraph_type = "Dialogue"
    /\ Elements[3].type = "dialogue"
    /\ Elements[3].character_name = Paras[1].plain_text

\* C4: a Dialogue paragraph read while no character is current appends
\* exactly one element, an action element with the paragraph's text, prints
\* the warning, keeps the parse running and leaves the state empty
C4_DialogueWithoutCharacter ==
    [][(ReadsKind({"Dialogue"}) /\ ~Truthy(current_character_element)) =>
        /\ Len(Elements') = Len(Elements) + 1
        /\ SubSeq(Elements', 1, Len(Elements)) = Elements
        /\ Elements'[Len(Elements')].type = "action"
        /\ Elements'[Len(Elements')].text = ReadText
        /\ out' = Append(out, "warning")
        /\ pc' = "loop"
        /\ ~Truthy(current_character_element')]_vars

C4_Witness ==
    /\ pc = "done" /\ outcome = "ok" /\ Len(Paras) = 2
    /\ Paras[1].paragraph_type = "Dialogue"
    /\ Paras[2].paragraph_type = "Dialogue"
    /\ Elements[2].type = "action"
    /\ Elements[2].text = Paras[2].plain_text
    /\ out = <<"warning", "warning">>

\* C5: a paragraph of an unrecognised kind appends one action element with
\* the paragraph's text and clears the current character, so a Dialogue
\* paragraph right after it is not a dialogue element
C5_NotAttributed ==
    \A j \in 2..Len(Paras) :
        ( /\ j <= Len(Elements)
          /\ Paras[j - 1].paragraph_type \notin KnownKinds
          /\ Paras[j].paragraph_type = "Dialogue" )
        => Elements[j].type = "action"

C5_UnknownKind ==
    /\ [] C5_NotAttributed
    /\ [][ReadsKind(Kinds \ KnownKinds) =>
            /\ Len(Elements') = Len(Elements) + 1
            /\ SubSeq(Elements', 1, Len(Elements)) = Elements
            /\ Elements'[Len(Elements')].type = "action"
            /\ Elements'[Len(Elements')].text = ReadText
            /\ ~Truthy(current_character_element')]_vars

C5_Witness ==
    /\ pc = "done" /\ outcome = "ok" /\ Len(Paras) = 3
    /\ Paras[1].paragraph_type = "Character"
    /\ Paras[2].paragraph_type = "Shot"
    /\ Paras[2].plain_text = "BOB"
    /\ Paras[3].paragraph_type = "Dialogue"
    /\ Elements[2].type = "action" /\ Elements[2].text = "BOB"
    /\ Elements[3].type = "action"

\* the lines a call printed, the dialogue warnings left out
Diagnostics == SelectSeq(out, LAMBDA m : m # "warning")
LoadFailures == {"not_found", "decode_error", "noattr", "none"}

\* C6: the sequence parse_file returns is never longer than the number of
\* paragraphs of the document, whether the call succeeds or fails
C6_LengthBounded ==
    (pc = "done" /\ outcome \in {"ok", "failed"}) =>
        Len(ResultValue) <= Len(Paras)

C6_Witness ==
    /\ pc = "done" /\ outcome = "ok" /\ Len(Paras) = 2
    /\ Paras[1].paragraph_type = "Character"
    /\ Paras[2].paragraph_type = "Dialogue"
    /\ Len(ResultValue) = 2

\* C7: when the document is not found, cannot be decoded, decodes to
\* nothing or decodes to an object without paragraphs, parse_file returns
\* the empty sequence and no exception leaves it
C7_LoadFailureReturnsEmpty ==
    (pc = "done" /\ input.kind \in LoadFailures) =>
        /\ outcome = "failed"
        /\ ResultValue = <<>>

C7_Witness ==
    /\ pc = "done" /\ input.kind = "decode_error"
    /\ error = "Exception" /\ outcome = "failed" /\ ResultValue = <<>>

\* C8: after a failed call the parser shows no partly built output and no
\* current character, and the call returned the empty sequence
C8_NoPartialState ==
    (pc = "done" /\ outcome = "failed") =>
        /\ ResultValue = <<>>
        /\ Elements = <<>>
        /\ ~Truthy(current_character_element)

\* C9: a call starts from an empty current character and an empty output,
\* returns what a new parser would return for the same document, and no
\* step changes a sequence an earlier call returned
C9_StartsEmpty ==
    (pc = "loop" /\ Paras = <<>>) =>
        /\ ~Truthy(current_character_element)
        /\ Elements = <<>>

C9_SameAsFresh ==
    /\ (pc = "done" /\ outcome = "ok") => ResultValue = FreshParse(Paras)
    /\ (pc = "done" /\ outcome = "failed") => ResultValue = <<>>

C9_EarlierResultsKept ==
    \A k \in 1..Len(held) :
        held[k] # 0 => heap'[held[k]] = heap[held[k]]

C9_CallsIndependent ==
    /\ [] (C9_StartsEmpty /\ C9_SameAsFresh)
    /\ [][C9_EarlierResultsKept]_vars

C9_Witness ==
    /\ pc = "done" /\ outcome = "ok" /\ Len(held) = 2
    /\ held[1] # 0 /\ Len(heap[held[1]]) = 1
    /\ heap[held[1]][1].type = "character"
    /\ Len(Paras) = 1 /\ Paras[1].paragraph_type = "Dialogue"
    /\ ResultValue[1].type = "action"

\* C10 as stated: a failed call prints exactly one diagnostic, the not-found
\* one when the document cannot be located and the decode-error one when
\* decoding fails or an error is raised while the paragraphs are read
C10_OneOfTwoDiagnostics ==
    (pc = "done" /\ outcome = "failed") =>
        /\ Len(Diagnostics) = 1
        /\ input.kind = "not_found" => Diagnostics = <<"not_found">>
        /\ input.kind \in {"decode_error", "ok"} => Diagnostics = <<"parse_error">>

\* C10 as amended: the diagnostic follows the way the call failed: a
\* FileNotFoundError, wherever raised, prints only the not-found line; any
\* other exception prints only the parsing-error line; a decoder that
\* returns None prints its own line; a decoded object without paragraphs
\* prints two lines; a missing document is always reported as not found
C10_DiagnosticPerFailure ==
    (pc = "done" /\ outcome = "failed") =>
        /\ error = "FileNotFoundError" => Diagnostics = <<"not_found">>
        /\ error = "Exception" => Diagnostics = <<"parse_error">>
        /\ input.kind = "none" => Diagnostics = <<"returned_none">>
        /\ input.kind = "noattr" => Diagnostics = <<"no_paragraphs", "attributes">>
        /\ input.kind = "not_found" => error = "FileNotFoundError"
        /\ input.kind = "decode_error" => error = "Exception"
        /\ Len(Diagnostics) >= 1

C10_Witness ==
    /\ pc = "done" /\ outcome = "failed" /\ input.kind = "ok"
    /\ error = "Exception" /\ Len(Paras) = 2
    /\ out = <<"warning", "parse_error">>

\* the element this step appended (when it appended exactly one)
Appended == Elements'[Len(Elements')]
AppendsOne ==
    /\ Len(Elements') = Len(Elements) + 1
    /\ SubSeq(Elements', 1, Len(Elements)) = Elements

\* C11: while a character is current it is the most recent Character
\* paragraph, and a Dialogue paragraph read then appends one dialogue
\* element with that character's name and with text and dialogue_text equal
\* to the paragraph's text, and leaves no current character
C11_CurrentIsMostRecent ==
    current_character_element # <<>> =>
        \E i \in 1..Len(Paras) :
            /\ Paras[i].paragraph_type = "Character"
            /\ \A k \in (i + 1)..Len(Paras) : Paras[k].paragraph_type = "Parenthetical"
            /\ current_character_element[1].character_name = Paras[i].plain_text

C11_DialogueWithCharacter ==
    /\ [] C11_CurrentIsMostRecent
    /\ [][(ReadsKind({"Dialogue"}) /\ current_character_element # <<>>) =>
            /\ AppendsOne
            /\ Appended.type = "dialogue"
            /\ Appended.character_name = current_character_element[1].character_name
            /\ Appended.text = ReadText
            /\ Appended.dialogue_text = ReadText
            /\ current_character_element' = <<>>]_vars

C11_Witness ==
    /\ pc = "loop" /\ Len(Paras) = 3
    /\ Paras[1] = [paragraph_type |-> "Character", plain_text |-> ""]
    /\ Paras[2] = [paragraph_type |-> "Character", plain_text |-> "BOB"]
    /\ Paras[3] = [paragraph_type |-> "Dialogue", plain_text |-> ""]
    /\ Elements[3].type = "dialogue"
    /\ Elements[3].character_name = "BOB"
    /\ Elements[3].text = "" /\ Elements[3].dialogue_text = ""
    /\ current_character_element = <<>>

\* C12 as stated: right after any element that is not a parenthetical is
\* appended, no character is current
C12_ResetUnlessParenthetical ==
    [][(AppendsOne /\ Appended.type # "parenthetical") =>
        current_character_element' = <<>>]_vars

\* C12 as amended: right after an element that is neither a parenthetical
\* nor a character is appended, no character is current; right after a
\* character element is appended, that element is the current character
C12_ResetUnlessParentheticalOrCharacter ==
    [][AppendsOne =>
        /\ Appended.type \notin {"parenthetical", "character"} =>
                current_character_element' = <<>>
        /\ Appended.type = "character" =>
                current_character_element' = <<Appended>>]_vars

C12_Witness ==
    /\ pc = "loop" /\ Len(Paras) = 2
    /\ Paras[1].paragraph_type = "Character"
    /\ Paras[2].paragraph_type = "Transition"
    /\ Elements[2].type = "transition"
    /\ current_character_element = <<>>

\* C13: a Scene Heading, Action or Transition paragraph appends exactly one
\* element of the matching type with the paragraph's text and clears the
\* current character, so a Dialogue paragraph right after it becomes an
\* action element
PlainKinds == {"Scene Heading", "Action", "Transition"}
PlainType(kind) ==
    IF kind = "Scene Heading" THEN "scene_heading"
    ELSE IF kind = "Action" THEN "action" ELSE "transition"

C13_DialogueAfterPlain ==
    \A j \in 2..Len(Paras) :
        ( /\ j <= Len(Elements)
          /\ Paras[j - 1].paragraph_type \in PlainKinds
          /\ Paras[j].paragraph_type = "Dialogue" )
        => Elements[j].type = "action"

C13_PlainKinds ==
    /\ [] C13_DialogueAfterPlain
    /\ [][ReadsKind(PlainKinds) =>
            /\ AppendsOne
            /\ Appended.type = PlainType(input'.paragraphs[Len(Paras) + 1].paragraph_type)
            /\ Appended.text = ReadText
            /\ current_character_element' = <<>>]_vars

C13_Witness ==
    /\ pc = "done" /\ outcome = "ok" /\ Len(Paras) = 3
    /\ Paras[1].paragraph_type = "Character"
    /\ Paras[2] = [paragraph_type |-> "Scene Heading", plain_text |-> "BOB"]
    /\ Paras[3].paragraph_type = "Dialogue"
    /\ Elements[2].type = "scene_heading" /\ Elements[2].text = "BOB"
    /\ Elements[3].type = "action"

\* C14: a Parenthetical paragraph appends one parenthetical element with the
\* paragraph's text and no character_name, with or without a current
\* character
C14_ParentheticalUntagged ==
    [][ReadsKind({"Parenthetical"}) =>
        /\ AppendsOne
        /\ Appended.type = "parenthetical"
        /\ Appended.text = ReadText
        /\ Appended.character_name = None]_vars

C14_Witness ==
    /\ pc = "loop" /\ Len(Paras) = 2
    /\ Paras[1] = [paragraph_type |-> "Character", plain_text |-> "BOB"]
    /\ Paras[2] = [paragraph_type |-> "Parenthetical", plain_text |-> "BOB"]
    /\ current_character_element # <<>>
    /\ Elements[2].type = "parenthetical"
    /\ Elements[2].text = "BOB"
    /\ Elements[2].character_name = None

\* C15: a successful call returns one element per paragraph, in order: the
\* i-th element carries the i-th paragraph's text (as character_name for a
\* Character paragraph, as text otherwise) and has original_line_num i
C15_OnePerParagraph ==
    (pc = "done" /\ outcome = "ok") =>
        /\ Len(ResultValue) = Len(Paras)
        /\ \A i \in 1..Len(ResultValue) :
            /\ ResultValue[i].original_line_num = i
            /\ IF Paras[i].paragraph_type = "Character"
               THEN /\ ResultValue[i].type = "character"
                    /\ ResultValue[i].character_name = Paras[i].plain_text
               ELSE /\ ResultValue[i].type # "character"
                    /\ ResultValue[i].text = Paras[i].plain_text

C15_Witness ==
    /\ pc = "done" /\ outcome = "ok" /\ Len(Paras) = 3
    /\ Paras[1] = [paragraph_type |-> "Action", plain_text |-> "BOB"]
    /\ Paras[2] = [paragraph_type |-> "Character", plain_text |-> ""]
    /\ Paras[3] = [paragraph_type |-> "Dialogue", plain_text |-> "BOB"]
    /\ ResultValue[3].original_line_num = 3
    /\ ResultValue[1].text = "BOB" /\ ResultValue[2].character_name = ""

\* C16: a Character paragraph yields at most one dialogue element: between
\* two dialogue elements lies a character element, a Dialogue paragraph
\* that follows another with no Character paragraph between becomes an
\* action element, and each such fallback prints one warning
C16_OneDialoguePerCharacter ==
    /\ \A i \in 1..Len(Elements) : \A j \in (i + 1)..Len(Elements) :
        (Elements[i].type = "dialogue" /\ Elements[j].type = "dialogue") =>
            \E k \in (i + 1)..(j - 1) : Elements[k].type = "character"
    /\ \A i \in 1..Len(Paras) : \A j \in (i + 1)..Len(Paras) :
        ( /\ j <= Len(Elements)
          /\ Paras[i].paragraph_type = "Dialogue"
          /\ Paras[j].paragraph_type = "Dialogue"
          /\ \A k \in (i + 1)..(j - 1) : Paras[k].paragraph_type # "Character" )
        => Elements[j].type = "action"
    /\ Len(Elements) = Len(Paras) =>
        Len(SelectSeq(out, LAMBDA m : m = "warning"))
            = Cardinality({j \in 1..Len(Paras) :
                            /\ Paras[j].paragraph_type = "Dialogue"
                            /\ Elements[j].type = "action"})

C16_Witness ==
    /\ pc = "done" /\ outcome = "ok" /\ Len(Paras) = 3
    /\ Paras[1].paragraph_type = "Character"
    /\ Paras[2].paragraph_type = "Dialogue"
    /\ Paras[3].paragraph_type = "Dialogue"
    /\ Elements[2].type = "dialogue"
    /\ Elements[3].type = "action"
    /\ out = <<"warning">>

\* C17: a Character paragraph sets the current character whatever its text,
\* so the Dialogue paragraph right after a Character paragraph, also one
\* with empty text, becomes a dialogue element with that (possibly empty)
\* name and prints no warning
C17_DialogueAfterAnyCharacter ==
    \A j \in 2..Len(Paras) :
        ( /\ j <= Len(Elements)
          /\ Paras[j - 1].paragraph_type = "Character"
          /\ Paras[j].paragraph_type = "Dialogue" )
        => /\ Elements[j].type = "dialogue"
           /\ Elements[j].character_name = Paras[j - 1].plain_text

C17_CharacterSetsState ==
    /\ [] C17_DialogueAfterAnyCharacter
    /\ [][( /\ ReadsKind({"Dialogue"})
            /\ Len(Paras) >= 1
            /\ Paras[Len(Paras)].paragraph_type = "Character" )
          => out' = out]_vars

C17_Witness ==
    /\ pc = "done" /\ outcome = "ok" /\ Len(Paras) = 2
    /\ Paras[1] = [paragraph_type |-> "Character", plain_text |-> ""]
    /\ Paras[2].paragraph_type = "Dialogue"
    /\ Elements[2].type = "dialogue"
    /\ Elements[2].character_name = ""
    /\ out = <<>>
====
